---- MODULE Spec2Model ----
(***************************************************************************)
(* Model of amazon/ionbenchmark/benchmark_runner.py: run_benchmark, the    *)
(* test-function factory _create_test_fun, the memory profiler             *)
(* _trace_memory_allocation and the timeit.Timer calls (timeit, repeat,    *)
(* autorange) that run_benchmark makes.  One run of run_benchmark is a     *)
(* sequential program; pc is its position.                                 *)
(***************************************************************************)
EXTENDS Integers, Sequences, FiniteSets, TLC

\* ---------------------------------------------------------------- bounds
MaxWarmups == 2
MaxIterations == 2
MaxRangeSteps == 2
MaxTiming == 1
MaxAlloc == 2

\* ------------------------------------------------------ program constants
RangeFactor == 5
TestBatchSize == 1
NanosPerSecond == 1000000000

\* timeit.Timer.autorange tries number = i * j for j in 1, 2, 5, then i *= 10
RangeMultipliers == <<1, 2, 5>>
RangeDecade == 10

IoTypes == {"buffer", "file", "socket"}
Commands == {"read", "write", "append"}
Apis == {"load_dump", "streaming"}
Formats == {"ion_binary", "ion_text", "cbor", "json"}

\* an optional value: None is the empty tuple, a present value x is <<x>>
None == <<>>
Some(x) == <<x>>

NoFn == "none"
NoCall == [phase |-> "none", gc |-> FALSE, tracing |-> FALSE]
NoError == [type |-> "none", args |-> <<>>]

VARIABLES
    benchmark_spec,   \* the BenchmarkSpec handed to run_benchmark
    pypy,             \* _pypy: no tracemalloc on this interpreter
    pytest_env,       \* "PYTEST_CURRENT_TEST" in os.environ
    gc_entry,         \* collector state when run_benchmark was called
    tracing_entry,    \* tracer state when run_benchmark was called
    gc,               \* gc.isenabled()
    tracing,          \* tracemalloc.is_tracing()
    traced_peak,      \* tracemalloc's peak high-water mark
    pc,               \* position in run_benchmark
    phase,            \* factory, profile, warmup, calibrate, sample, normalize
    test_fun,         \* which closure _create_test_fun returned
    fixture,          \* counts of fixture accesses (spec accessors, input read)
    loader,           \* counts of loads / dumps / load / dump calls
    open_files,       \* handles currently open inside the callable
    temp_files,       \* temporary files currently existing
    next_handle,      \* id the next opened handle gets
    exc_pending,      \* the load/dump inside a with-block raised
    gcold,            \* timeit's saved gc.isenabled()
    remaining,        \* loop iterations left in the current timeit call
    ar_i,             \* autorange's i
    ar_j,             \* autorange's position in 1, 2, 5
    ar_steps,         \* autorange trials made
    ar_number,        \* autorange's number of the current trial
    batch_size,       \* 0 until assigned
    raw_timings,      \* timer.repeat's list r
    calls,            \* invocations of the callable, per phase
    last_call,        \* collector / tracer state seen by the latest invocation
    raised,           \* some invocation of the callable raised
    tm_log,           \* steps _trace_memory_allocation has taken, in order
    peak_memory_usage,
    result,           \* the BenchmarkResult, or None
    error             \* the exception run_benchmark raised, or None

vars == <<benchmark_spec, pypy, pytest_env, gc_entry, tracing_entry, gc, tracing,
          traced_peak, pc, phase, test_fun, fixture, loader, open_files, temp_files,
          next_handle, exc_pending, gcold, remaining, ar_i, ar_j, ar_steps,
          ar_number, batch_size, raw_timings, calls, last_call, raised, tm_log,
          peak_memory_usage, result, error>>

envVars == <<benchmark_spec, pypy, pytest_env, gc_entry, tracing_entry>>
fileVars == <<open_files, temp_files, next_handle, exc_pending>>
rangeVars == <<ar_i, ar_j, ar_steps, ar_number>>
traceVars == <<tracing, traced_peak, tm_log, peak_memory_usage>>

Max(a, b) == IF a >= b THEN a ELSE b

\* ----------------------------------------------------------- the factory
MatchArg(s) == <<s.io_type, s.command, s.api>>

Supported_AnyApi(m) ==
    m[1] \in {"buffer", "file"} /\ m[2] \in {"read", "write"}

Supported(m) ==
    \/ m = <<"buffer", "read", "load_dump">>
    \/ m = <<"buffer", "write", "load_dump">>
    \/ m = <<"file", "read", "load_dump">>
    \/ m = <<"file", "write", "load_dump">>

format_is_binary(f) == f \in {"ion_binary", "cbor"}
format_is_ion(f) == f \in {"ion_binary", "ion_text"}

\* the closure the factory's branch defines
TestFn(s) ==
    IF s.io_type = "buffer" /\ s.command = "read" THEN "buffer_read"
    ELSE IF s.io_type = "buffer" /\ s.command = "write" THEN "buffer_write"
    ELSE IF s.io_type = "file" /\ s.command = "read" THEN "file_read"
    ELSE IF format_is_binary(s.format) \/ format_is_ion(s.format) THEN "file_write_wb"
    ELSE "file_write_wt"

NoFixture ==
    [get_loader_dumper |-> 0, get_input_file |-> 0, read_input |-> 0,
     get_data_object |-> 0, get_format |-> 0, classify |-> 0]

\* the one-time setup of the factory's branch for closure k
FactorySetup(k) ==
    [get_loader_dumper |-> 1,
     get_input_file |-> IF k \in {"buffer_read", "file_read"} THEN 1 ELSE 0,
     read_input |-> IF k = "buffer_read" THEN 1 ELSE 0,
     get_data_object |-> IF k \in {"buffer_write", "file_write_wb", "file_write_wt"} THEN 1 ELSE 0,
     get_format |-> IF k \in {"file_write_wb", "file_write_wt"} THEN 1 ELSE 0,
     classify |-> IF k \in {"file_write_wb", "file_write_wt"} THEN 1 ELSE 0]

IsFileFn(k) == k \in {"file_read", "file_write_wb", "file_write_wt"}
IsBufferFn(k) == k \in {"buffer_read", "buffer_write"}

\* the loader/dumper method closure k calls
Method(k) ==
    CASE k = "buffer_read" -> "loads"
      [] k = "buffer_write" -> "dumps"
      [] k = "file_read" -> "load"
      [] OTHER -> "dump"

Fail(type, args) == [type |-> type, args |-> args]

TimedPhases == {"warmup", "calibrate", "sample"}

Init ==
    /\ benchmark_spec \in [io_type : IoTypes, command : Commands, api : Apis,
                           format : Formats, py_gc_disabled : BOOLEAN,
                           warmups : 0..MaxWarmups, iterations : 0..MaxIterations]
    /\ pypy \in BOOLEAN
    /\ pytest_env \in BOOLEAN
    /\ gc_entry \in BOOLEAN
    /\ tracing_entry \in BOOLEAN
    /\ pypy => ~tracing_entry
    /\ gc = gc_entry
    /\ tracing = tracing_entry
    /\ traced_peak = 0
    /\ pc = "start"
    /\ phase = "factory"
    /\ test_fun = NoFn
    /\ fixture = NoFixture
    /\ loader = [loads |-> 0, dumps |-> 0, load |-> 0, dump |-> 0]
    /\ open_files = {}
    /\ temp_files = {}
    /\ next_handle = 1
    /\ exc_pending = FALSE
    /\ gcold = FALSE
    /\ remaining = 0
    /\ ar_i = 0
    /\ ar_j = 0
    /\ ar_steps = 0
    /\ ar_number = 0
    /\ batch_size = 0
    /\ raw_timings = <<>>
    /\ calls = [profile |-> 0, warmup |-> 0, calibrate |-> 0, sample |-> 0]
    /\ last_call = NoCall
    /\ raised = FALSE
    /\ tm_log = <<>>
    /\ peak_memory_usage = None
    /\ result = None
    /\ error = NoError

\* run_benchmark line 52: test_fun = _create_test_fun(benchmark_spec)
CreateTestFun ==
    /\ pc = "start"
    /\ IF Supported(MatchArg(benchmark_spec))
       THEN /\ test_fun' = TestFn(benchmark_spec)
            /\ fixture' = FactorySetup(TestFn(benchmark_spec))
            /\ pc' = "profile"
            /\ phase' = "profile"
            /\ error' = error
       ELSE /\ fixture' = [fixture EXCEPT !.get_loader_dumper = 1]
            /\ error' = Fail("NotImplementedError", MatchArg(benchmark_spec))
            /\ pc' = "failed"
            /\ UNCHANGED <<test_fun, phase>>
    /\ UNCHANGED <<envVars, gc, tracing, traced_peak, loader, fileVars, gcold,
                   remaining, rangeVars, batch_size, raw_timings, calls, last_call,
                   raised, tm_log, peak_memory_usage, result>>


\* ---------------------------------------------- invoking the test callable
\* test_fun is invoked by the profiler (line 144) and by timeit's inner loop
CanInvoke == pc = "tm_call" \/ (pc = "ti_loop" /\ remaining > 0)

ReturnPc == IF phase = "profile" THEN "tm_peak" ELSE "ti_loop"

\* collector state once an exception has left run_benchmark: timeit's
\* finally re-enables it when gcold; _trace_memory_allocation has no finally
UnwoundGc == IF phase \in TimedPhases /\ gcold THEN TRUE ELSE gc

Counted ==
    /\ calls' = [calls EXCEPT ![phase] = @ + 1]
    /\ remaining' = IF phase \in TimedPhases THEN remaining - 1 ELSE remaining
    /\ tm_log' = IF phase = "profile" THEN Append(tm_log, "test_fn") ELSE tm_log

Seen == last_call' = [phase |-> phase, gc |-> gc, tracing |-> tracing]

Allocates ==
    \E b \in 1..MaxAlloc :
        traced_peak' = IF tracing THEN Max(traced_peak, b) ELSE traced_peak

InvokeBufferOk_Rereads ==
    /\ CanInvoke
    /\ IsBufferFn(test_fun)
    /\ Counted
    /\ Seen
    /\ Allocates
    /\ loader' = [loader EXCEPT ![Method(test_fun)] = @ + 1]
    /\ fixture' = IF test_fun = "buffer_read"
                  THEN [fixture EXCEPT !.read_input = @ + 1]
                  ELSE [fixture EXCEPT !.get_data_object = @ + 1]
    /\ pc' = ReturnPc
    /\ UNCHANGED <<envVars, gc, tracing, phase, test_fun, fileVars, gcold,
                   rangeVars, batch_size, raw_timings, raised, peak_memory_usage,
                   result, error>>

\* test_fn of buffer/read or buffer/write returns (lines 104-105, 110-111)
InvokeBufferOk ==
    /\ CanInvoke
    /\ IsBufferFn(test_fun)
    /\ Counted
    /\ Seen
    /\ Allocates
    /\ loader' = [loader EXCEPT ![Method(test_fun)] = @ + 1]
    /\ pc' = ReturnPc
    /\ UNCHANGED <<envVars, gc, tracing, phase, test_fun, fixture, fileVars, gcold,
                   rangeVars, batch_size, raw_timings, raised, peak_memory_usage,
                   result, error>>

InvokeBufferRaise_Swallowed ==
    /\ CanInvoke
    /\ IsBufferFn(test_fun)
    /\ Counted
    /\ Seen
    /\ loader' = [loader EXCEPT ![Method(test_fun)] = @ + 1]
    /\ raised' = TRUE
    /\ pc' = ReturnPc
    /\ UNCHANGED <<envVars, gc, tracing, traced_peak, phase, test_fun, fixture,
                   fileVars, gcold, rangeVars, batch_size, raw_timings,
                   peak_memory_usage, result, error>>

\* loads / dumps raises inside test_fn: nothing in run_benchmark catches it
InvokeBufferRaise ==
    /\ CanInvoke
    /\ IsBufferFn(test_fun)
    /\ Counted
    /\ Seen
    /\ loader' = [loader EXCEPT ![Method(test_fun)] = @ + 1]
    /\ raised' = TRUE
    /\ gc' = UnwoundGc
    /\ error' = Fail("CallableError", <<phase>>)
    /\ pc' = "failed"
    /\ UNCHANGED <<envVars, tracing, traced_peak, phase, test_fun, fixture, fileVars,
                   gcold, rangeVars, batch_size, raw_timings, peak_memory_usage,
                   result>>

\* the with-statement of a file closure opens its handle (lines 117, 125, 129)
InvokeOpenFile ==
    /\ CanInvoke
    /\ IsFileFn(test_fun)
    /\ Counted
    /\ open_files' = open_files \cup
           {[id |-> next_handle,
             mode |-> CASE test_fun = "file_read" -> "rb"
                        [] test_fun = "file_write_wb" -> "wb"
                        [] OTHER -> "wt"]}
    /\ temp_files' = IF test_fun = "file_read" THEN temp_files
                     ELSE temp_files \cup {next_handle}
    /\ next_handle' = next_handle + 1
    /\ exc_pending' = FALSE
    /\ pc' = "in_call"
    /\ UNCHANGED <<envVars, gc, tracing, traced_peak, phase, test_fun, fixture,
                   loader, gcold, rangeVars, batch_size, raw_timings, last_call,
                   raised, peak_memory_usage, result, error>>

\* loader_dumper.load(f) / dump(data_obj, f) returns (lines 118, 126, 130)
CallOk ==
    /\ pc = "in_call"
    /\ Seen
    /\ Allocates
    /\ loader' = [loader EXCEPT ![Method(test_fun)] = @ + 1]
    /\ pc' = "call_exit"
    /\ UNCHANGED <<envVars, gc, tracing, phase, test_fun, fixture, fileVars, gcold,
                   remaining, rangeVars, batch_size, raw_timings, calls, raised,
                   tm_log, peak_memory_usage, result, error>>

\* loader_dumper.load(f) / dump(data_obj, f) raises
CallRaise ==
    /\ pc = "in_call"
    /\ Seen
    /\ loader' = [loader EXCEPT ![Method(test_fun)] = @ + 1]
    /\ raised' = TRUE
    /\ exc_pending' = TRUE
    /\ pc' = "call_exit"
    /\ UNCHANGED <<envVars, gc, tracing, traced_peak, phase, test_fun, fixture,
                   open_files, temp_files, next_handle, gcold, remaining, rangeVars,
                   batch_size, raw_timings, calls, tm_log, peak_memory_usage,
                   result, error>>

CallExit_NoRelease ==
    /\ pc = "call_exit"
    /\ open_files' = IF exc_pending THEN open_files
                     ELSE {h \in open_files : h.id # next_handle - 1}
    /\ temp_files' = IF exc_pending THEN temp_files
                     ELSE temp_files \ {next_handle - 1}
    /\ IF exc_pending
       THEN /\ gc' = UnwoundGc
            /\ error' = Fail("CallableError", <<phase>>)
            /\ pc' = "failed"
       ELSE /\ pc' = ReturnPc
            /\ UNCHANGED <<gc, error>>
    /\ UNCHANGED <<envVars, tracing, traced_peak, phase, test_fun, fixture, loader,
                   next_handle, exc_pending, gcold, remaining, rangeVars, batch_size,
                   raw_timings, calls, last_call, raised, tm_log, peak_memory_usage,
                   result>>

\* the with-statement's exit: the handle is closed (a TemporaryFile is
\* deleted on close), then the closure returns or the exception propagates
CallExit ==
    /\ pc = "call_exit"
    /\ open_files' = {h \in open_files : h.id # next_handle - 1}
    /\ temp_files' = temp_files \ {next_handle - 1}
    /\ IF exc_pending
       THEN /\ gc' = UnwoundGc
            /\ error' = Fail("CallableError", <<phase>>)
            /\ pc' = "failed"
       ELSE /\ pc' = ReturnPc
            /\ UNCHANGED <<gc, error>>
    /\ UNCHANGED <<envVars, tracing, traced_peak, phase, test_fun, fixture, loader,
                   next_handle, exc_pending, gcold, remaining, rangeVars, batch_size,
                   raw_timings, calls, last_call, raised, tm_log, peak_memory_usage,
                   result>>

\* ------------------------------------------------------ memory profiling
\* lines 55-56: under PyPy the memory figure is None
ProfileSkip ==
    /\ pc = "profile"
    /\ pypy
    /\ peak_memory_usage' = None
    /\ pc' = "setup"
    /\ UNCHANGED <<envVars, gc, tracing, traced_peak, phase, test_fun, fixture,
                   loader, fileVars, gcold, remaining, rangeVars, batch_size,
                   raw_timings, calls, last_call, raised, tm_log, result, error>>

TmGcDisable_Skipped ==
    /\ pc = "profile"
    /\ ~pypy
    /\ tm_log' = Append(tm_log, "gc.disable")
    /\ pc' = "tm_start"
    /\ UNCHANGED <<envVars, gc, tracing, traced_peak, phase, test_fun, fixture,
                   loader, fileVars, gcold, remaining, rangeVars, batch_size,
                   raw_timings, calls, last_call, raised, peak_memory_usage, result,
                   error>>

\* line 142: gc.disable()
TmGcDisable ==
    /\ pc = "profile"
    /\ ~pypy
    /\ gc' = FALSE
    /\ tm_log' = Append(tm_log, "gc.disable")
    /\ pc' = "tm_start"
    /\ UNCHANGED <<envVars, tracing, traced_peak, phase, test_fun, fixture, loader,
                   fileVars, gcold, remaining, rangeVars, batch_size, raw_timings,
                   calls, last_call, raised, peak_memory_usage, result, error>>

\* line 143: tracemalloc.start() (no effect when already tracing)
TmStart ==
    /\ pc = "tm_start"
    /\ tracing' = TRUE
    /\ traced_peak' = IF tracing THEN traced_peak ELSE 0
    /\ tm_log' = Append(tm_log, "tracemalloc.start")
    /\ pc' = "tm_call"
    /\ UNCHANGED <<envVars, gc, phase, test_fun, fixture, loader, fileVars, gcold,
                   remaining, rangeVars, batch_size, raw_timings, calls, last_call,
                   raised, peak_memory_usage, result, error>>

\* line 145: memory_usage_peak = tracemalloc.get_traced_memory()[1]
\* (get_traced_memory returns (0, 0) when the tracer is not running)
TmReadPeak ==
    /\ pc = "tm_peak"
    /\ peak_memory_usage' = Some(IF tracing THEN traced_peak ELSE 0)
    /\ tm_log' = Append(tm_log, "get_traced_memory")
    /\ pc' = "tm_stop"
    /\ UNCHANGED <<envVars, gc, tracing, traced_peak, phase, test_fun, fixture,
                   loader, fileVars, gcold, remaining, rangeVars, batch_size,
                   raw_timings, calls, last_call, raised, result, error>>

\* line 146: tracemalloc.stop()
TmStop ==
    /\ pc = "tm_stop"
    /\ tracing' = FALSE
    /\ traced_peak' = 0
    /\ tm_log' = Append(tm_log, "tracemalloc.stop")
    /\ pc' = "tm_enable"
    /\ UNCHANGED <<envVars, gc, phase, test_fun, fixture, loader, fileVars, gcold,
                   remaining, rangeVars, batch_size, raw_timings, calls, last_call,
                   raised, peak_memory_usage, result, error>>

\* lines 147-148: gc.enable(); return memory_usage_peak
TmGcEnable ==
    /\ pc = "tm_enable"
    /\ gc' = TRUE
    /\ tm_log' = Append(tm_log, "gc.enable")
    /\ pc' = "setup"
    /\ UNCHANGED <<envVars, tracing, traced_peak, phase, test_fun, fixture, loader,
                   fileVars, gcold, remaining, rangeVars, batch_size, raw_timings,
                   calls, last_call, raised, peak_memory_usage, result, error>>

\* ------------------------------------------------------- timeit.Timer
SetupGc_Pass(s, g) == g

\* lines 60-64: the setup statement, run by inner() at the start of every
\* timeit call; g is the collector state it starts from
SetupGc(s, g) == IF s.py_gc_disabled THEN FALSE ELSE TRUE

\* Timer.timeit(number) up to the loop: gcold = gc.isenabled(); gc.disable();
\* inner() runs the setup statement
TimeitEnter(number) ==
    /\ gcold' = gc
    /\ gc' = SetupGc(benchmark_spec, FALSE)
    /\ remaining' = number
    /\ pc' = "ti_loop"

\* Timer.timeit's finally: if gcold: gc.enable()
TimeitFinally == gc' = IF gcold THEN TRUE ELSE gc

TimeitLoopDone == pc = "ti_loop" /\ remaining = 0

\* lines 66-69: timer = timeit.Timer(...); timer.timeit(get_warmups())
WarmUp ==
    /\ pc = "setup"
    /\ phase' = "warmup"
    /\ TimeitEnter(benchmark_spec.warmups)
    /\ UNCHANGED <<envVars, traceVars, test_fun, fixture, loader, fileVars,
                   rangeVars, batch_size, raw_timings, calls, last_call, raised,
                   result, error>>

\* the warm-up timeit call returns; its timing is discarded
WarmUpReturn ==
    /\ TimeitLoopDone
    /\ phase = "warmup"
    /\ TimeitFinally
    /\ pc' = "batch"
    /\ UNCHANGED <<envVars, traceVars, phase, test_fun, fixture, loader, fileVars,
                   gcold, remaining, rangeVars, batch_size, raw_timings, calls,
                   last_call, raised, result, error>>

\* lines 72-74: under pytest the batch size is 1
TestModeBatch ==
    /\ pc = "batch"
    /\ pytest_env
    /\ batch_size' = TestBatchSize
    /\ phase' = "sample"
    /\ pc' = "repeat"
    /\ UNCHANGED <<envVars, gc, traceVars, test_fun, fixture, loader, fileVars,
                   gcold, remaining, rangeVars, raw_timings, calls, last_call,
                   raised, result, error>>

\* line 78: timeit.Timer(stmt=test_fun, setup=setup).autorange() begins: i = 1
AutorangeStart ==
    /\ pc = "batch"
    /\ ~pytest_env
    /\ ar_i' = 1
    /\ ar_j' = 1
    /\ phase' = "calibrate"
    /\ pc' = "ar_trial"
    /\ UNCHANGED <<envVars, gc, traceVars, test_fun, fixture, loader, fileVars,
                   gcold, remaining, ar_steps, ar_number, batch_size, raw_timings,
                   calls, last_call, raised, result, error>>

\* autorange: number = i * j; time_taken = self.timeit(number)
RangeTrial ==
    /\ pc = "ar_trial"
    /\ ar_number' = ar_i * RangeMultipliers[ar_j]
    /\ ar_steps' = ar_steps + 1
    /\ TimeitEnter(ar_i * RangeMultipliers[ar_j])
    /\ UNCHANGED <<envVars, traceVars, phase, test_fun, fixture, loader, fileVars,
                   ar_i, ar_j, batch_size, raw_timings, calls, last_call, raised,
                   result, error>>

BatchSizeFromRange_Unscaled(number) == number

\* lines 78 and 81: batch_size is autorange's number, then batch_size *= 5
BatchSizeFromRange(number) == number * RangeFactor

\* autorange: time_taken >= 0.2, return (number, time_taken)
RangeReturnEnough ==
    /\ TimeitLoopDone
    /\ phase = "calibrate"
    /\ TimeitFinally
    /\ batch_size' = BatchSizeFromRange(ar_number)
    /\ phase' = "sample"
    /\ pc' = "repeat"
    /\ UNCHANGED <<envVars, traceVars, test_fun, fixture, loader, fileVars, gcold,
                   remaining, rangeVars, raw_timings, calls, last_call, raised,
                   result, error>>

\* autorange: time_taken < 0.2, go on to the next j, or i *= 10
RangeReturnShort ==
    /\ TimeitLoopDone
    /\ phase = "calibrate"
    /\ ar_steps < MaxRangeSteps
    /\ TimeitFinally
    /\ IF ar_j < Len(RangeMultipliers)
       THEN ar_j' = ar_j + 1 /\ ar_i' = ar_i
       ELSE ar_j' = 1 /\ ar_i' = ar_i * RangeDecade
    /\ pc' = "ar_trial"
    /\ UNCHANGED <<envVars, traceVars, phase, test_fun, fixture, loader, fileVars,
                   gcold, remaining, ar_steps, ar_number, batch_size, raw_timings,
                   calls, last_call, raised, result, error>>

\* line 84, Timer.repeat: for i in range(repeat): t = self.timeit(number)
SampleBatch ==
    /\ pc = "repeat"
    /\ Len(raw_timings) < benchmark_spec.iterations
    /\ TimeitEnter(batch_size)
    /\ UNCHANGED <<envVars, traceVars, phase, test_fun, fixture, loader, fileVars,
                   rangeVars, batch_size, raw_timings, calls, last_call, raised,
                   result, error>>

\* Timer.repeat: r.append(t), t the batch's elapsed perf_counter_ns
SampleReturn ==
    /\ TimeitLoopDone
    /\ phase = "sample"
    /\ TimeitFinally
    /\ \E t \in 0..MaxTiming : raw_timings' = Append(raw_timings, t)
    /\ pc' = "repeat"
    /\ UNCHANGED <<envVars, traceVars, phase, test_fun, fixture, loader, fileVars,
                   gcold, remaining, rangeVars, batch_size, calls, last_call,
                   raised, result, error>>

\* ---------------------------------------------------------- normalization
\* a quotient a / b is kept as the pair <<a, b>>
IsZero(q) == q[1] = 0

\* line 87: nanos_per_op = [t/batch_size for t in raw_timings]
NanosPerOp(raw, n) == [i \in 1..Len(raw) |-> <<raw[i], n>>]

\* line 88: ops_per_sec = [1000000000.0 / t for t in nanos_per_op]
OpsPerSec(nanos) == [i \in 1..Len(nanos) |-> [num |-> NanosPerSecond, den |-> nanos[i]]]

\* float division raises ZeroDivisionError on a zero divisor
DivisionFails(raw, n) ==
    \/ n = 0 /\ raw # <<>>
    \/ \E i \in 1..Len(raw) : IsZero(NanosPerOp(raw, n)[i])

SampleDist(data) == [samples |-> data]

BenchmarkResult(nanos_per_op, ops_per_sec, peak) ==
    [nanos_per_op |-> SampleDist(nanos_per_op),
     ops_per_second |-> SampleDist(ops_per_sec),
     peak_memory_usage |-> peak]

\* lines 84-90: repeat returns; normalize and build the result
Normalize ==
    /\ pc = "repeat"
    /\ Len(raw_timings) = benchmark_spec.iterations
    /\ phase' = "normalize"
    /\ IF DivisionFails(raw_timings, batch_size)
       THEN /\ error' = Fail("ZeroDivisionError", <<>>)
            /\ pc' = "failed"
            /\ result' = result
       ELSE /\ result' = Some(BenchmarkResult(
                                NanosPerOp(raw_timings, batch_size),
                                OpsPerSec(NanosPerOp(raw_timings, batch_size)),
                                peak_memory_usage))
            /\ pc' = "done"
            /\ error' = error
    /\ UNCHANGED <<envVars, gc, traceVars, test_fun, fixture, loader, fileVars,
                   gcold, remaining, rangeVars, batch_size, raw_timings, calls,
                   last_call, raised>>

Next ==
    \/ CreateTestFun
    \/ ProfileSkip
    \/ TmGcDisable
    \/ TmStart
    \/ TmReadPeak
    \/ TmStop
    \/ TmGcEnable
    \/ InvokeBufferOk
    \/ InvokeBufferRaise
    \/ InvokeOpenFile
    \/ CallOk
    \/ CallRaise
    \/ CallExit
    \/ WarmUp
    \/ WarmUpReturn
    \/ TestModeBatch
    \/ AutorangeStart
    \/ RangeTrial
    \/ RangeReturnEnough
    \/ RangeReturnShort
    \/ SampleBatch
    \/ SampleReturn
    \/ Normalize

Spec == Init /\ [][Next]_vars

\* ================================================================ claims
TotalCalls == calls.profile + calls.warmup + calls.calibrate + calls.sample
LoaderCalls == loader.loads + loader.dumps + loader.load + loader.dump
Finished == pc \in {"done", "failed"}
SupportedTriples ==
    {<<"buffer", "read", "load_dump">>, <<"buffer", "write", "load_dump">>,
     <<"file", "read", "load_dump">>, <<"file", "write", "load_dump">>}
IsSupportedRun == <<benchmark_spec.io_type, benchmark_spec.command, benchmark_spec.api>> \in SupportedTriples

\* C1: for every triple other than the four supported ones, run_benchmark
\* fails with a NotImplementedError naming the three values, before any
\* measurement: the callable is never invoked, the collector and the tracer
\* are as on entry, and no result is produced.
C1_UnsupportedFailsBeforeMeasurement ==
    (~IsSupportedRun /\ pc # "start") =>
        /\ pc = "failed"
        /\ error = [type |-> "NotImplementedError",
                    args |-> <<benchmark_spec.io_type, benchmark_spec.command,
                               benchmark_spec.api>>]
        /\ test_fun = NoFn
        /\ TotalCalls = 0
        /\ LoaderCalls = 0
        /\ gc = gc_entry
        /\ tracing = tracing_entry
        /\ tm_log = <<>>
        /\ raw_timings = <<>>
        /\ result = None

C1_Witness ==
    /\ pc = "failed"
    /\ error.type = "NotImplementedError"
    /\ error.args = <<"file", "read", "streaming">>
    /\ ~gc_entry
    /\ tracing_entry

\* C2: in test-mode, a supported run whose callable never raises uses batch
\* size 1 and returns a result whose nanos_per_op and ops_per_second each
\* have exactly `iterations` entries, as many as the raw timings.
C2_TestModeSampleCount ==
    (IsSupportedRun /\ pytest_env /\ ~raised /\ Finished) =>
        /\ pc = "done"
        /\ batch_size = 1
        /\ result # None
        /\ Len(result[1].nanos_per_op.samples) = benchmark_spec.iterations
        /\ Len(result[1].ops_per_second.samples) = benchmark_spec.iterations
        /\ Len(raw_timings) = benchmark_spec.iterations

\* C3: on every exit of run_benchmark after a successful factory call the
\* collector is enabled and the allocation tracer is stopped.
C3_ProcessStateRestored ==
    (Finished /\ test_fun # NoFn) => (gc /\ ~tracing)

\* C4: once an invocation of the callable has raised, the exception leaves
\* run_benchmark uncaught: no further invocation, no sample for the failed
\* batch, no result.
C4_RaiseAborts ==
    /\ [](raised =>
            /\ pc \in {"call_exit", "failed"}
            /\ (pc = "failed" => error.type = "CallableError")
            /\ result = None
            /\ (phase = "sample" => Len(raw_timings) * batch_size < calls.sample))
    /\ [][raised => /\ calls' = calls
                    /\ loader' = loader
                    /\ raw_timings' = raw_timings
                    /\ result' = None]_vars

C4_Witness ==
    /\ raised
    /\ pc = "failed"
    /\ phase = "sample"
    /\ Len(raw_timings) = 1
    /\ result = None

ProfilerOrder ==
    <<"gc.disable", "tracemalloc.start", "test_fn", "get_traced_memory",
      "tracemalloc.stop", "gc.enable">>

\* C5: with tracing available the profiler invokes the callable exactly
\* once, with the collector disabled and the tracer running whatever the
\* py_gc_disabled flag and the prior collector state; its steps are, in
\* order, disable collector, start tracing, invoke, read peak, stop tracing,
\* enable collector, and the peak is read while tracing is active.
C5_ProfilerSteps ==
    /\ Len(tm_log) <= Len(ProfilerOrder)
    /\ tm_log = SubSeq(ProfilerOrder, 1, Len(tm_log))
    /\ calls.profile = (IF Len(tm_log) >= 3 THEN 1 ELSE 0)
    /\ (~pypy /\ phase \in TimedPhases \cup {"normalize"}) => Len(tm_log) = 6
    /\ (phase = "profile" /\ last_call.phase = "profile") =>
            (~last_call.gc /\ last_call.tracing)
    /\ (pc = "in_call" /\ phase = "profile") => (~gc /\ tracing)
    /\ pc = "tm_stop" => (tracing /\ peak_memory_usage = Some(traced_peak)
                                  /\ traced_peak >= 1)

C5_Witness ==
    /\ pc = "setup"
    /\ ~pypy
    /\ tm_log = ProfilerOrder
    /\ gc_entry
    /\ ~benchmark_spec.py_gc_disabled
    /\ calls.profile = 1
    /\ peak_memory_usage = Some(MaxAlloc)

\* C6: every timed invocation (warm-up, calibration, sample batches) runs
\* with the collector disabled if py_gc_disabled is set and enabled
\* otherwise; the mode is in force before the first timed invocation and in
\* every batch, whatever the collector state on entry.
C6_TimedGcMode ==
    /\ last_call.phase \in TimedPhases => last_call.gc = ~benchmark_spec.py_gc_disabled
    /\ pc = "ti_loop" => gc = ~benchmark_spec.py_gc_disabled
    /\ (pc = "in_call" /\ phase \in TimedPhases) => gc = ~benchmark_spec.py_gc_disabled

C6_Witness ==
    /\ last_call.phase = "sample"
    /\ last_call.gc
    /\ ~benchmark_spec.py_gc_disabled
    /\ ~gc_entry
    /\ pypy
    /\ calls.calibrate > 0
    /\ Len(raw_timings) = 1

\* C7: all fixture setup happens in the factory and never in the callable:
\* the input file is read once for buffer/read, the data object (and for
\* file/write the format classification) is obtained once, and each
\* invocation makes exactly one loads/dumps/load/dump call.
C7_SetupOnlyInFactory ==
    /\ [](/\ pc = "start" => (fixture = NoFixture /\ LoaderCalls = 0)
          /\ test_fun = "buffer_read" =>
                (fixture.read_input = 1 /\ fixture.get_input_file = 1
                 /\ fixture.get_data_object = 0 /\ LoaderCalls = loader.loads)
          /\ test_fun = "buffer_write" =>
                (fixture.get_data_object = 1 /\ fixture.read_input = 0
                 /\ LoaderCalls = loader.dumps)
          /\ test_fun = "file_read" =>
                (fixture.get_input_file = 1 /\ fixture.read_input = 0
                 /\ LoaderCalls = loader.load)
          /\ test_fun \in {"file_write_wb", "file_write_wt"} =>
                (fixture.get_data_object = 1 /\ fixture.get_format = 1
                 /\ fixture.classify = 1 /\ fixture.read_input = 0
                 /\ LoaderCalls = loader.dump)
          /\ LoaderCalls = TotalCalls - (IF pc = "in_call" THEN 1 ELSE 0))
    /\ [][pc # "start" => fixture' = fixture]_vars

C7_Witness ==
    /\ test_fun = "buffer_read"
    /\ calls.profile = 1
    /\ calls.warmup = 2
    /\ calls.sample >= 2
    /\ fixture.read_input = 1
    /\ loader.loads = TotalCalls

\* C8: in file/read and file/write runs every invocation acquires its own
\* handle (file/write: a fresh temporary file) and releases it before the
\* invocation ends, also when the load or dump raises: at most one handle is
\* open, none between invocations, none and no temporary file after the run.
C8_HandlesScoped ==
    /\ Cardinality(open_files) <= 1
    /\ open_files # {} <=> pc \in {"in_call", "call_exit"}
    /\ \A h \in open_files : h.id = next_handle - 1
    /\ temp_files = {h.id : h \in {g \in open_files : g.mode # "rb"}}
    /\ next_handle - 1 = (IF IsFileFn(test_fun) THEN TotalCalls ELSE 0)
    /\ Finished => (open_files = {} /\ temp_files = {})

C8_Witness ==
    /\ test_fun = "file_write_wb"
    /\ raised
    /\ pc = "failed"
    /\ next_handle >= 4
    /\ open_files = {}
    /\ temp_files = {}

\* C9: when the callable never raises, for every sequence of raw timings (0
\* included) normalization is defined: batch_size >= 1, nanos_per_op[i] =
\* raw[i] / batch_size, ops_per_second[i] = 1e9 / nanos_per_op[i] with a
\* non-zero divisor, and a result is returned.
C9_NormalizationDefined ==
    (IsSupportedRun /\ ~raised /\ phase = "normalize") =>
        /\ pc = "done"
        /\ batch_size >= 1
        /\ result # None
        /\ \A i \in 1..Len(raw_timings) :
              /\ result[1].nanos_per_op.samples[i] = <<raw_timings[i], batch_size>>
              /\ result[1].ops_per_second.samples[i] =
                    [num |-> 1000000000, den |-> <<raw_timings[i], batch_size>>]
              /\ raw_timings[i] # 0

NextPhase(p) ==
    CASE p = "factory" -> "profile"
      [] p = "profile" -> "warmup"
      [] p = "warmup" -> (IF pytest_env THEN "sample" ELSE "calibrate")
      [] p = "calibrate" -> "sample"
      [] p = "sample" -> "normalize"
      [] OTHER -> "none"

\* C10: the phases occur in the order factory, profiling, warm-up,
\* calibration, sampling, normalization, and the callable is invoked only
\* inside them: once by the profiler (never without tracing, the memory
\* figure then absent), warmup_count times by warm-up, iterations * N times
\* by sampling, N fixed before the first sample (1 in test-mode, without
\* calibration invocations; 5 times the auto-ranged number otherwise).
C10_PhaseOrderAndCounts ==
    /\ [](/\ phase \in TimedPhases \cup {"normalize"} =>
                /\ calls.profile = (IF pypy THEN 0 ELSE 1)
                /\ pypy => peak_memory_usage = None
                /\ ~pypy => peak_memory_usage # None
          /\ calls.warmup <= benchmark_spec.warmups
          /\ phase \in {"calibrate", "sample", "normalize"} =>
                calls.warmup = benchmark_spec.warmups
          /\ phase \in {"factory", "profile", "warmup"} =>
                (batch_size = 0 /\ calls.calibrate = 0 /\ calls.sample = 0)
          /\ phase = "calibrate" => (batch_size = 0 /\ calls.sample = 0 /\ ~pytest_env)
          /\ phase \in {"sample", "normalize"} =>
                /\ batch_size = (IF pytest_env THEN 1 ELSE 5 * ar_number)
                /\ pytest_env => calls.calibrate = 0
                /\ ~pytest_env => calls.calibrate >= ar_number
                /\ calls.sample <= benchmark_spec.iterations * batch_size
          /\ phase = "normalize" =>
                calls.sample = benchmark_spec.iterations * batch_size)
    /\ [][/\ phase' \in {phase, NextPhase(phase)}
          /\ calls' # calls =>
                /\ phase' = phase
                /\ phase \in {"profile", "warmup", "calibrate", "sample"}
                /\ calls' = [calls EXCEPT ![phase] = @ + 1]
          /\ batch_size # 0 => batch_size' = batch_size]_vars

C10_Witness ==
    /\ pc = "done"
    /\ ~pytest_env
    /\ ~pypy
    /\ benchmark_spec.warmups = 2
    /\ benchmark_spec.iterations = 2
    /\ batch_size = 10
    /\ calls = [profile |-> 1, warmup |-> 2, calibrate |-> 3, sample |-> 20]
====
